---- MODULE Spec2Model ----
(***************************************************************************)
(* Model of the single-symbol limit order book of src/src/main.rs:        *)
(* OrderBook with two HalfBooks (price_map + price_levels), the order_loc  *)
(* index, the best_bid_price / best_ask_price fields, and the operations   *)
(* add_limit_order and cancel_order.                                       *)
(*                                                                         *)
(* Vec / VecDeque are sequences.  Rust indices are 0-based, so the level   *)
(* stored under index u in price_map is price_levels[u + 1] here.          *)
(* BTreeMap / HashMap are functions whose DOMAIN is the key set.           *)
(***************************************************************************)
EXTENDS Integers, Sequences, FiniteSets, TLC

\* ------------------------------------------------------------------ bounds
\* Prices offered to add_limit_order are 1..MaxPrice.
MaxPrice == 2
\* Quantities offered to add_limit_order are 0..MaxQty (u64 admits 0).
MaxQty == 2
\* Number of resting orders ever created (Uuid::new_v4 calls) explored.
MaxOrders == 3

\* ------------------------------------------------------- program constants
\* u64::MIN, the initial best_bid_price ("no bid").
U64_MIN == 0
\* u64::MAX, the initial best_ask_price and FillResult::new().remaining_qty.
\* The model checker's integers are 32 bits wide: the largest of them stands
\* for 2^64 - 1.  No arithmetic is ever done on it.
U64_MAX == 2147483647

Sides == {"Ask", "Bid"}
Prices == 1 .. MaxPrice
Qtys == 0 .. MaxQty
\* Identifiers a caller may pass to cancel_order.  Uuid::new_v4() hands out
\* the pairwise distinct tokens 1, 2, ..: every one that can be issued, and
\* one that never is.
CancelIds == 1 .. (MaxOrders + 1)

VARIABLES
    best_ask_price,   \* OrderBook.best_ask_price
    best_bid_price,   \* OrderBook.best_bid_price
    ask_book,         \* OrderBook.ask_book : [price_map, price_levels]
    bid_book,         \* OrderBook.bid_book : [price_map, price_levels]
    order_loc,        \* OrderBook.order_loc : id -> [side, level]
    next_uuid,        \* the next identifier Uuid::new_v4() returns
    last_call,        \* the call that produced this state, with its arguments
    fill_result,      \* the FillResult the last call returned, when it was
                      \* add_limit_order (FillResult::new() otherwise)
    cancel_result,    \* "Ok" / "Err": the Result the last call returned, when
                      \* it was cancel_order ("None" otherwise)
    filled_ids,       \* history: ids whose order was fully filled by matching
    cancelled_ids,    \* history: ids whose order was cancelled
    net_qty,          \* history: the quantities submitted, minus twice the
                      \* quantities the fill results reported, minus the
                      \* quantities the cancelled orders had left
    bbo_result,       \* what the last call did, when it was get_bbo: printed
                      \* the quantities and the spread, or panicked
    script_pos        \* history: how many calls of Script the caller has made,
                      \* when these are all its calls so far (-1 otherwise)

vars == <<best_ask_price, best_bid_price, ask_book, bid_book, order_loc,
          next_uuid, last_call, fill_result, cancel_result,
          filled_ids, cancelled_ids, net_qty, bbo_result, script_pos>>

\* ----------------------------------------------------------------- helpers
\* The empty BTreeMap / HashMap.
EmptyMap == [k \in {} |-> 0]

\* map.insert(k, v)
MapInsert(m, k, v) == [x \in (DOMAIN m) \cup {k} |-> IF x = k THEN v ELSE m[x]]

\* map.remove(k) for every k in ks
MapRemove(m, ks) == [x \in (DOMAIN m) \ ks |-> m[x]]

RECURSIVE Ascending(_)
\* The keys of a BTreeMap in the order iter() / next() yields them.
Ascending(S) ==
    IF S = {} THEN <<>>
    ELSE LET m == CHOOSE x \in S : \A y \in S : x <= y
         IN  <<m>> \o Ascending(S \ {m})

RECURSIVE Descending(_)
\* The keys of a BTreeMap in the order iter().rev() / next_back() yields them.
Descending(S) ==
    IF S = {} THEN <<>>
    ELSE LET m == CHOOSE x \in S : \A y \in S : x >= y
         IN  <<m>> \o Descending(S \ {m})

RECURSIVE SumQty(_)
\* price_level.iter().map(|s| s.qty).sum()
SumQty(q) == IF q = <<>> THEN 0 ELSE Head(q).qty + SumQty(Tail(q))

RECURSIVE SumFilled(_)
\* The total quantity of a filled_orders vector of (qty, price) pairs.
SumFilled(f) == IF f = <<>> THEN 0 ELSE Head(f)[1] + SumFilled(Tail(f))

\* HalfBook::new
HalfBookNew == [price_map |-> EmptyMap, price_levels |-> <<>>]

\* FillResult::new
FillResultNew ==
    [filled_orders |-> <<>>, remaining_qty |-> U64_MAX, status |-> "Uninitialized"]

\* OrderBook::new (next_uuid: the identifier source starts at its first token)
OrderBookNew ==
    [best_ask_price |-> U64_MAX,
     best_bid_price |-> U64_MIN,
     bid_book       |-> HalfBookNew,
     ask_book       |-> HalfBookNew,
     order_loc      |-> EmptyMap,
     next_uuid      |-> 1]

\* The level of half book `book` stored under 0-based index u.
LevelAt(book, u) == book.price_levels[u + 1]

\* The half book of side s.
BookOf(ob, s) == IF s = "Ask" THEN ob.ask_book ELSE ob.bid_book

\* The ids of the orders held in some queue of a half book.
IdsIn(book) ==
    UNION {{book.price_levels[i][j].order_id : j \in DOMAIN book.price_levels[i]} :
              i \in DOMAIN book.price_levels}

\* The ids of the orders resting anywhere in the book.
RestingIds(ob) == IdsIn(ob.ask_book) \cup IdsIn(ob.bid_book)

\* -------------------------------------------------------------- operations
\* cancel_order that leaves the entry of the id in order_loc.
cancel_order_keeploc(ob, order_id) ==
    IF order_id \in DOMAIN ob.order_loc
    THEN LET side        == ob.order_loc[order_id].side
             price_level == ob.order_loc[order_id].level
             deq(book)   == [book EXCEPT !.price_levels[price_level + 1] =
                                SelectSeq(@, LAMBDA x : x.order_id # order_id)]
         IN  [ob     |-> [ob EXCEPT
                            !.ask_book  = IF side = "Ask" THEN deq(@) ELSE @,
                            !.bid_book  = IF side = "Bid" THEN deq(@) ELSE @],
              result |-> "Ok"]
    ELSE [ob |-> ob, result |-> "Err"]

\* cancel_order that drops the price of a level it has emptied from price_map.
cancel_order_prune(ob, order_id) ==
    IF order_id \in DOMAIN ob.order_loc
    THEN LET side        == ob.order_loc[order_id].side
             price_level == ob.order_loc[order_id].level
             deq(book)   ==
                 LET levels == [book.price_levels EXCEPT ![price_level + 1] =
                                   SelectSeq(@, LAMBDA x : x.order_id # order_id)]
                 IN  [price_levels |-> levels,
                      price_map    |->
                          IF levels[price_level + 1] = <<>>
                          THEN MapRemove(book.price_map,
                                         {p \in DOMAIN book.price_map :
                                             book.price_map[p] = price_level})
                          ELSE book.price_map]
         IN  [ob     |-> [ob EXCEPT
                            !.ask_book  = IF side = "Ask" THEN deq(@) ELSE @,
                            !.bid_book  = IF side = "Bid" THEN deq(@) ELSE @,
                            !.order_loc = MapRemove(@, {order_id})],
              result |-> "Ok"]
    ELSE [ob |-> ob, result |-> "Err"]

\* cancel_order that recomputes the best prices after the removal.
cancel_order_bbo(ob, order_id) ==
    IF order_id \in DOMAIN ob.order_loc
    THEN LET side        == ob.order_loc[order_id].side
             price_level == ob.order_loc[order_id].level
             deq(book)   == [book EXCEPT !.price_levels[price_level + 1] =
                                SelectSeq(@, LAMBDA x : x.order_id # order_id)]
             removed     == [ob EXCEPT
                               !.ask_book  = IF side = "Ask" THEN deq(@) ELSE @,
                               !.bid_book  = IF side = "Bid" THEN deq(@) ELSE @,
                               !.order_loc = MapRemove(@, {order_id})]
             scan(keys, book, current) ==
                 LET ne == {i \in DOMAIN keys :
                               book.price_levels[book.price_map[keys[i]] + 1] # <<>>}
                 IN  IF ne = {} THEN current
                     ELSE keys[CHOOSE i \in ne : \A j \in ne : i <= j]
         IN  [ob     |-> [removed EXCEPT
                            !.best_bid_price =
                                scan(Descending(DOMAIN removed.bid_book.price_map),
                                     removed.bid_book, @),
                            !.best_ask_price =
                                scan(Ascending(DOMAIN removed.ask_book.price_map),
                                     removed.ask_book, @)],
              result |-> "Ok"]
    ELSE [ob |-> ob, result |-> "Err"]

\* OrderBook::cancel_order: looks the id up in order_loc; on a hit retains
\* in the level's queue the orders with another id and removes the entry.
cancel_order(ob, order_id) ==
    IF order_id \in DOMAIN ob.order_loc
    THEN LET side        == ob.order_loc[order_id].side
             price_level == ob.order_loc[order_id].level
             deq(book)   == [book EXCEPT !.price_levels[price_level + 1] =
                                SelectSeq(@, LAMBDA x : x.order_id # order_id)]
         IN  [ob     |-> [ob EXCEPT
                            !.ask_book  = IF side = "Ask" THEN deq(@) ELSE @,
                            !.bid_book  = IF side = "Bid" THEN deq(@) ELSE @,
                            !.order_loc = MapRemove(@, {order_id})],
              result |-> "Ok"]
    ELSE [ob |-> ob, result |-> "Err"]

\* create_new_limit_order that pushes the order at the front of its level.
create_new_limit_order_front(ob, s, price, qty) ==
    LET order_id == ob.next_uuid
        book     == BookOf(ob, s)
        order    == [order_id |-> order_id, qty |-> qty]
        new_loc  == Len(book.price_levels)
        idx      == IF price \in DOMAIN book.price_map
                    THEN book.price_map[price] ELSE new_loc
        book2    == IF price \in DOMAIN book.price_map
                    THEN [book EXCEPT !.price_levels[idx + 1] = <<order>> \o @]
                    ELSE [price_map    |-> MapInsert(book.price_map, price, new_loc),
                          price_levels |-> Append(book.price_levels, <<order>>)]
    IN  [ob EXCEPT
            !.ask_book  = IF s = "Ask" THEN book2 ELSE @,
            !.bid_book  = IF s = "Bid" THEN book2 ELSE @,
            !.order_loc = MapInsert(@, order_id, [side |-> s, level |-> idx]),
            !.next_uuid = @ + 1]

\* OrderBook::create_new_limit_order: a fresh id, pushed at the back of the
\* level of `price` in the book of side s (a new level is pushed at the end of
\* price_levels when the price has none), and registered in order_loc.
create_new_limit_order(ob, s, price, qty) ==
    LET order_id == ob.next_uuid
        book     == BookOf(ob, s)
        order    == [order_id |-> order_id, qty |-> qty]
        new_loc  == Len(book.price_levels)
        idx      == IF price \in DOMAIN book.price_map
                    THEN book.price_map[price] ELSE new_loc
        book2    == IF price \in DOMAIN book.price_map
                    THEN [book EXCEPT !.price_levels[idx + 1] = Append(@, order)]
                    ELSE [price_map    |-> MapInsert(book.price_map, price, new_loc),
                          price_levels |-> Append(book.price_levels, <<order>>)]
    IN  [ob EXCEPT
            !.ask_book  = IF s = "Ask" THEN book2 ELSE @,
            !.bid_book  = IF s = "Bid" THEN book2 ELSE @,
            !.order_loc = MapInsert(@, order_id, [side |-> s, level |-> idx]),
            !.next_uuid = @ + 1]

RECURSIVE FirstNonEmpty(_, _, _)
\* The loops of update_bbo: the first price in `keys` whose level is not
\* empty, or `current` when the loop ends without a break.
FirstNonEmpty(keys, book, current) ==
    IF keys = <<>> THEN current
    ELSE IF LevelAt(book, book.price_map[Head(keys)]) # <<>> THEN Head(keys)
    ELSE FirstNonEmpty(Tail(keys), book, current)

\* OrderBook::update_bbo
update_bbo(ob) ==
    [ob EXCEPT
        !.best_bid_price =
            FirstNonEmpty(Descending(DOMAIN ob.bid_book.price_map), ob.bid_book, @),
        !.best_ask_price =
            FirstNonEmpty(Ascending(DOMAIN ob.ask_book.price_map), ob.ask_book, @)]

RECURSIVE MatchIter_nopartial(_, _)
\* MatchIter whose partial-fill branch does not add to done_qty.
MatchIter_nopartial(q, incoming) ==
    IF q = <<>>
    THEN [q |-> <<>>, incoming |-> incoming, done_qty |-> 0, removed |-> {}]
    ELSE LET o == Head(q)
         IN  IF o.qty <= incoming
             THEN LET r == MatchIter_nopartial(Tail(q), incoming - o.qty)
                  IN  [q        |-> <<[o EXCEPT !.qty = 0]>> \o r.q,
                       incoming |-> r.incoming,
                       done_qty |-> o.qty + r.done_qty,
                       removed  |-> {o.order_id} \cup r.removed]
             ELSE LET r == MatchIter_nopartial(Tail(q), 0)
                  IN  [q        |-> <<[o EXCEPT !.qty = o.qty - incoming]>> \o r.q,
                       incoming |-> r.incoming,
                       done_qty |-> r.done_qty,
                       removed  |-> r.removed]

RECURSIVE MatchIter_keeploc(_, _)
\* MatchIter that leaves the ids of fully filled orders in order_loc.
MatchIter_keeploc(q, incoming) ==
    IF q = <<>>
    THEN [q |-> <<>>, incoming |-> incoming, done_qty |-> 0, removed |-> {}]
    ELSE LET o == Head(q)
         IN  IF o.qty <= incoming
             THEN LET r == MatchIter_keeploc(Tail(q), incoming - o.qty)
                  IN  [q        |-> <<[o EXCEPT !.qty = 0]>> \o r.q,
                       incoming |-> r.incoming,
                       done_qty |-> o.qty + r.done_qty,
                       removed  |-> r.removed]
             ELSE LET r == MatchIter_keeploc(Tail(q), 0)
                  IN  [q        |-> <<[o EXCEPT !.qty = o.qty - incoming]>> \o r.q,
                       incoming |-> r.incoming,
                       done_qty |-> incoming + r.done_qty,
                       removed  |-> r.removed]

RECURSIVE MatchIter_nodecrement(_, _)
\* MatchIter whose full-fill branch does not take the order's quantity off the
\* incoming quantity.
MatchIter_nodecrement(q, incoming) ==
    IF q = <<>>
    THEN [q |-> <<>>, incoming |-> incoming, done_qty |-> 0, removed |-> {}]
    ELSE LET o == Head(q)
         IN  IF o.qty <= incoming
             THEN LET r == MatchIter_nodecrement(Tail(q), incoming)
                  IN  [q        |-> <<[o EXCEPT !.qty = 0]>> \o r.q,
                       incoming |-> r.incoming,
                       done_qty |-> o.qty + r.done_qty,
                       removed  |-> {o.order_id} \cup r.removed]
             ELSE LET r == MatchIter_nodecrement(Tail(q), 0)
                  IN  [q        |-> <<[o EXCEPT !.qty = o.qty - incoming]>> \o r.q,
                       incoming |-> r.incoming,
                       done_qty |-> incoming + r.done_qty,
                       removed  |-> r.removed]

RECURSIVE MatchIter(_, _)
\* The for loop of match_at_price_level over price_level.iter_mut(): the
\* queue with the decremented quantities (zeros still in place), what is left
\* of the incoming quantity, done_qty, and the ids removed from order_loc.
MatchIter(q, incoming) ==
    IF q = <<>>
    THEN [q |-> <<>>, incoming |-> incoming, done_qty |-> 0, removed |-> {}]
    ELSE LET o == Head(q)
         IN  IF o.qty <= incoming
             THEN LET r == MatchIter(Tail(q), incoming - o.qty)
                  IN  [q        |-> <<[o EXCEPT !.qty = 0]>> \o r.q,
                       incoming |-> r.incoming,
                       done_qty |-> o.qty + r.done_qty,
                       removed  |-> {o.order_id} \cup r.removed]
             ELSE LET r == MatchIter(Tail(q), 0)
                  IN  [q        |-> <<[o EXCEPT !.qty = o.qty - incoming]>> \o r.q,
                       incoming |-> r.incoming,
                       done_qty |-> incoming + r.done_qty,
                       removed  |-> r.removed]

\* match_at_price_level with the loop started at the back of the queue.
match_at_price_level_lifo(price_level, incoming_order_qty, loc) ==
    LET rev(q) == [i \in 1 .. Len(q) |-> q[Len(q) + 1 - i]]
        r      == MatchIter(rev(price_level), incoming_order_qty)
    IN  [price_level        |-> SelectSeq(rev(r.q), LAMBDA x : x.qty # 0),
         incoming_order_qty |-> r.incoming,
         order_loc          |-> MapRemove(loc, r.removed),
         done_qty           |-> r.done_qty]

\* match_at_price_level without the retain that drops the emptied orders.
match_at_price_level_noretain(price_level, incoming_order_qty, loc) ==
    LET r == MatchIter(price_level, incoming_order_qty)
    IN  [price_level        |-> r.q,
         incoming_order_qty |-> r.incoming,
         order_loc          |-> MapRemove(loc, r.removed),
         done_qty           |-> r.done_qty]

\* match_at_price_level: the loop, then price_level.retain(|x| x.qty != 0).
match_at_price_level(price_level, incoming_order_qty, loc) ==
    LET r == MatchIter(price_level, incoming_order_qty)
    IN  [price_level        |-> SelectSeq(r.q, LAMBDA x : x.qty # 0),
         incoming_order_qty |-> r.incoming,
         order_loc          |-> MapRemove(loc, r.removed),
         done_qty           |-> r.done_qty]

\* Crosses with strict comparisons.
Crosses_strict(s, price, x) == IF s = "Bid" THEN price > x ELSE price < x

\* Crosses with the comparisons of the two sides exchanged.
Crosses_inverted(s, price, x) == IF s = "Bid" THEN price <= x ELSE price >= x

\* The loop conditions `price >= *x` (Side::Bid) and `price <= *x` (Side::Ask).
Crosses(s, price, x) == IF s = "Bid" THEN price >= x ELSE price <= x

\* WalkOrder with the two iteration directions exchanged.
WalkOrder_swapped(s, price_map) ==
    IF s = "Bid" THEN Descending(DOMAIN price_map) ELSE Ascending(DOMAIN price_map)

\* The order in which the walk of an incoming order of side s visits the
\* prices of the opposing price_map: next() for a Bid, next_back() for an Ask.
WalkOrder(s, price_map) ==
    IF s = "Bid" THEN Ascending(DOMAIN price_map) ELSE Descending(DOMAIN price_map)

RECURSIVE Walk_pushall(_, _, _, _)
\* Walk that records a fill for every level it visits.
Walk_pushall(keys, s, price, w) ==
    IF keys = <<>> THEN w
    ELSE IF ~Crosses(s, price, Head(keys)) THEN w
    ELSE LET x          == Head(keys)
             curr_level == w.book.price_map[x]
             m          == match_at_price_level(LevelAt(w.book, curr_level),
                                                w.remaining_order_qty,
                                                w.order_loc)
         IN  Walk_pushall(Tail(keys), s, price,
                  [book |-> [w.book EXCEPT
                                !.price_levels[curr_level + 1] = m.price_level],
                   remaining_order_qty |-> m.incoming_order_qty,
                   order_loc           |-> m.order_loc,
                   filled_orders       |->
                       Append(w.filled_orders, <<m.done_qty, x>>)])

RECURSIVE Walk(_, _, _, _)
\* The while loop of add_limit_order over the opposing book: w carries the
\* opposing book, remaining_order_qty, order_loc and filled_orders.
Walk(keys, s, price, w) ==
    IF keys = <<>> THEN w
    ELSE IF ~Crosses(s, price, Head(keys)) THEN w
    ELSE LET x          == Head(keys)
             curr_level == w.book.price_map[x]
             m          == match_at_price_level(LevelAt(w.book, curr_level),
                                                w.remaining_order_qty,
                                                w.order_loc)
         IN  Walk(Tail(keys), s, price,
                  [book |-> [w.book EXCEPT
                                !.price_levels[curr_level + 1] = m.price_level],
                   remaining_order_qty |-> m.incoming_order_qty,
                   order_loc           |-> m.order_loc,
                   filled_orders       |->
                       IF m.done_qty # 0
                       THEN Append(w.filled_orders, <<m.done_qty, x>>)
                       ELSE w.filled_orders])

\* StatusOf with the two non-filled statuses exchanged.
StatusOf_swapped(remaining_order_qty, order_qty) ==
    IF remaining_order_qty # 0
    THEN IF remaining_order_qty = order_qty THEN "PartiallyFilled" ELSE "Created"
    ELSE "Filled"

\* The status add_limit_order gives the result.
StatusOf(remaining_order_qty, order_qty) ==
    IF remaining_order_qty # 0
    THEN IF remaining_order_qty = order_qty THEN "Created" ELSE "PartiallyFilled"
    ELSE "Filled"

\* add_limit_order that rests the submitted quantity, not what remains of it.
add_limit_order_restfull(ob, s, price, order_qty) ==
    LET opp     == IF s = "Bid" THEN ob.ask_book ELSE ob.bid_book
        w       == Walk(WalkOrder(s, opp.price_map), s, price,
                        [book                |-> opp,
                         remaining_order_qty |-> order_qty,
                         order_loc           |-> ob.order_loc,
                         filled_orders       |-> FillResultNew.filled_orders])
        matched == [ob EXCEPT
                       !.ask_book  = IF s = "Bid" THEN w.book ELSE @,
                       !.bid_book  = IF s = "Ask" THEN w.book ELSE @,
                       !.order_loc = w.order_loc]
        rested  == IF w.remaining_order_qty # 0
                   THEN create_new_limit_order(matched, s, price, order_qty)
                   ELSE matched
    IN  [ob          |-> update_bbo(rested),
         fill_result |-> [filled_orders |-> w.filled_orders,
                          remaining_qty |-> w.remaining_order_qty,
                          status        |-> StatusOf(w.remaining_order_qty,
                                                     order_qty)]]

\* OrderBook::add_limit_order: the walk of the opposing book, the rest of the
\* remaining quantity, update_bbo; yields the book and the FillResult.
add_limit_order(ob, s, price, order_qty) ==
    LET opp     == IF s = "Bid" THEN ob.ask_book ELSE ob.bid_book
        w       == Walk(WalkOrder(s, opp.price_map), s, price,
                        [book                |-> opp,
                         remaining_order_qty |-> order_qty,
                         order_loc           |-> ob.order_loc,
                         filled_orders       |-> FillResultNew.filled_orders])
        matched == [ob EXCEPT
                       !.ask_book  = IF s = "Bid" THEN w.book ELSE @,
                       !.bid_book  = IF s = "Ask" THEN w.book ELSE @,
                       !.order_loc = w.order_loc]
        rested  == IF w.remaining_order_qty # 0
                   THEN create_new_limit_order(matched, s, price,
                                               w.remaining_order_qty)
                   ELSE matched
    IN  [ob          |-> update_bbo(rested),
         fill_result |-> [filled_orders |-> w.filled_orders,
                          remaining_qty |-> w.remaining_order_qty,
                          status        |-> StatusOf(w.remaining_order_qty,
                                                     order_qty)]]

\* get_total_qty that takes a price without a level for an empty level.
get_total_qty_default(book, price) ==
    IF price \in DOMAIN book.price_map
    THEN [panic |-> FALSE, value |-> SumQty(LevelAt(book, book.price_map[price]))]
    ELSE [panic |-> FALSE, value |-> 0]

\* HalfBook::get_total_qty: the sum of the quantities of the level of `price`;
\* indexing price_map with a price that is not a key panics.
get_total_qty(book, price) ==
    IF price \in DOMAIN book.price_map
    THEN [panic |-> FALSE, value |-> SumQty(LevelAt(book, book.price_map[price]))]
    ELSE [panic |-> TRUE, value |-> 0]

\* No get_bbo outcome.
NoBbo ==
    [outcome |-> "None", bid_qty |-> 0, ask_qty |-> 0, spread |-> 0, wrapped |-> FALSE]

\* OrderBook::get_bbo: the outcomes of the call.  The two quantities are
\* computed first; best_ask_price - best_bid_price is a u64 subtraction, which
\* panics when overflow checks are compiled in and wraps (to 2^64 + spread,
\* spread < 0) when they are not.
get_bbo(ob) ==
    LET total_bid_qty == get_total_qty(ob.bid_book, ob.best_bid_price)
        total_ask_qty == get_total_qty(ob.ask_book, ob.best_ask_price)
        printed(w)    == [outcome |-> "Printed",
                          bid_qty |-> total_bid_qty.value,
                          ask_qty |-> total_ask_qty.value,
                          spread  |-> ob.best_ask_price - ob.best_bid_price,
                          wrapped |-> w]
        panicked      == [NoBbo EXCEPT !.outcome = "Panic"]
    IN  IF total_bid_qty.panic \/ total_ask_qty.panic THEN {panicked}
        ELSE IF ob.best_ask_price >= ob.best_bid_price THEN {printed(FALSE)}
        ELSE {panicked, printed(TRUE)}

RECURSIVE QtyOfIn(_, _)
\* The quantity of the orders with identifier id in the queue q.
QtyOfIn(q, id) ==
    IF q = <<>> THEN 0
    ELSE (IF Head(q).order_id = id THEN Head(q).qty ELSE 0) + QtyOfIn(Tail(q), id)

RECURSIVE QtyOfInLevels(_, _)
\* The quantity of the orders with identifier id in the levels.
QtyOfInLevels(levels, id) ==
    IF levels = <<>> THEN 0
    ELSE QtyOfIn(Head(levels), id) + QtyOfInLevels(Tail(levels), id)

\* The quantity the order id has left in the book, 0 when it does not rest.
RestingQty(ob, id) ==
    QtyOfInLevels(ob.ask_book.price_levels, id)
        + QtyOfInLevels(ob.bid_book.price_levels, id)

\* ------------------------------------------------------------ state machine
\* The OrderBook held in the variables.
Self ==
    [best_ask_price |-> best_ask_price,
     best_bid_price |-> best_bid_price,
     bid_book       |-> bid_book,
     ask_book       |-> ask_book,
     order_loc      |-> order_loc,
     next_uuid      |-> next_uuid]

\* The variables take the fields of the book ob.
Becomes(ob) ==
    /\ best_ask_price' = ob.best_ask_price
    /\ best_bid_price' = ob.best_bid_price
    /\ bid_book'       = ob.bid_book
    /\ ask_book'       = ob.ask_book
    /\ order_loc'      = ob.order_loc
    /\ next_uuid'      = ob.next_uuid

NoCall == [op |-> "new", side |-> "Ask", price |-> 0, qty |-> 0, id |-> 0]

Init ==
    /\ best_ask_price = OrderBookNew.best_ask_price
    /\ best_bid_price = OrderBookNew.best_bid_price
    /\ bid_book       = OrderBookNew.bid_book
    /\ ask_book       = OrderBookNew.ask_book
    /\ order_loc      = OrderBookNew.order_loc
    /\ next_uuid      = OrderBookNew.next_uuid
    /\ last_call      = NoCall
    /\ fill_result    = FillResultNew
    /\ cancel_result  = "None"
    /\ filled_ids     = {}
    /\ cancelled_ids  = {}
    /\ net_qty        = 0
    /\ bbo_result     = NoBbo
    /\ script_pos     = 0

\* A call of add_limit_order(s, price, qty): its effect on the book and what
\* it returns.
SubmitCall(s, price, qty) ==
    /\ next_uuid <= MaxOrders
    /\ \E r \in {add_limit_order(Self, s, price, qty)} :
           /\ Becomes(r.ob)
           /\ fill_result' = r.fill_result
           /\ filled_ids'  = filled_ids \cup
                                (RestingIds(Self) \ RestingIds(r.ob))
           /\ net_qty'     = net_qty + qty
                                - 2 * SumFilled(r.fill_result.filled_orders)
    /\ last_call' = [op |-> "submit", side |-> s, price |-> price,
                     qty |-> qty, id |-> 0]
    /\ cancel_result' = "None"
    /\ bbo_result' = NoBbo
    /\ UNCHANGED cancelled_ids

\* A call of add_limit_order(s, price, qty) by an arbitrary caller.
Submit(s, price, qty) ==
    /\ SubmitCall(s, price, qty)
    /\ UNCHANGED script_pos

\* A call of cancel_order(id).
Cancel(id) ==
    /\ \E r \in {cancel_order(Self, id)} :
           /\ Becomes(r.ob)
           /\ cancel_result' = r.result
           /\ cancelled_ids' = IF r.result = "Ok"
                               THEN cancelled_ids \cup {id} ELSE cancelled_ids
           /\ net_qty' = IF r.result = "Ok"
                         THEN net_qty - RestingQty(Self, id) ELSE net_qty
    /\ last_call' = [op |-> "cancel", side |-> "Ask", price |-> 0,
                     qty |-> 0, id |-> id]
    /\ fill_result' = FillResultNew
    /\ bbo_result' = NoBbo
    /\ UNCHANGED <<filled_ids, script_pos>>

\* A call of get_bbo().
GetBbo ==
    /\ \E r \in get_bbo(Self) : bbo_result' = r
    /\ last_call' = [op |-> "get_bbo", side |-> "Ask", price |-> 0,
                     qty |-> 0, id |-> 0]
    /\ fill_result' = FillResultNew
    /\ cancel_result' = "None"
    /\ UNCHANGED <<best_ask_price, best_bid_price, ask_book, bid_book, order_loc,
                   next_uuid, filled_ids, cancelled_ids, net_qty, script_pos>>

SubmitAny == \E s \in Sides, price \in Prices, qty \in Qtys : Submit(s, price, qty)

CancelAny == \E id \in CancelIds : Cancel(id)

Next == SubmitAny \/ CancelAny \/ GetBbo

Spec == Init /\ [][Next]_vars

\* The book driven by add_limit_order calls only.
SpecSubmit == Init /\ [][SubmitAny]_vars

\* The prices and quantities of the calls A, B, C below.
ScenarioPrices == {100, 101}
ScenarioQtys == {4, 10}

\* The calls A, B, C: Ask(100, 10), Bid(100, 4), Bid(101, 10).
Script ==
    << [side |-> "Ask", price |-> 100, qty |-> 10],
       [side |-> "Bid", price |-> 100, qty |-> 4],
       [side |-> "Bid", price |-> 101, qty |-> 10] >>

\* A call of add_limit_order(s, price, qty) by a caller that may follow
\* Script from the empty book: script_pos advances while it does.
ScriptedSubmit(s, price, qty) ==
    /\ SubmitCall(s, price, qty)
    /\ script_pos' =
          IF /\ script_pos >= 0
             /\ script_pos < Len(Script)
             /\ Script[script_pos + 1] = [side |-> s, price |-> price, qty |-> qty]
          THEN script_pos + 1
          ELSE -1

ScriptedAny ==
    \E s \in Sides, price \in ScenarioPrices, qty \in ScenarioQtys :
        ScriptedSubmit(s, price, qty)

\* The book driven by add_limit_order calls at the prices and quantities of
\* the scenario.
SpecScenario == Init /\ [][ScriptedAny]_vars

\* ------------------------------------------------- vocabulary of the claims
\* The prices of a half book whose level holds at least one order.
NonEmptyPrices(book) ==
    {p \in DOMAIN book.price_map : LevelAt(book, book.price_map[p]) # <<>>}

\* The orders (records) held in the queues of a half book.
OrdersIn(book) ==
    UNION {{book.price_levels[i][j] : j \in DOMAIN book.price_levels[i]} :
              i \in DOMAIN book.price_levels}

\* The remaining quantity of order id in a half book, 0 when it holds none.
QtyIn(book, id) ==
    IF id \in IdsIn(book)
    THEN (CHOOSE o \in OrdersIn(book) : o.order_id = id).qty
    ELSE 0

\* The quantity resting at price p in a half book, 0 without a level.
QtyAt(book, p) ==
    IF p \in DOMAIN book.price_map
    THEN SumQty(LevelAt(book, book.price_map[p])) ELSE 0

\* The number of places in the queues of both half books that hold order id.
Occurrences(ob, id) ==
    Cardinality({<<s, i, j>> \in Sides \X (1 .. MaxOrders) \X (1 .. MaxOrders) :
                    /\ i \in DOMAIN BookOf(ob, s).price_levels
                    /\ j \in DOMAIN BookOf(ob, s).price_levels[i]
                    /\ BookOf(ob, s).price_levels[i][j].order_id = id})

\* The highest / lowest element of a non-empty set of prices.
Highest(S) == CHOOSE x \in S : \A y \in S : x >= y
Lowest(S) == CHOOSE x \in S : \A y \in S : x <= y

\* ------------------------------------------------------------------ claims
\* C1: after any sequence of add_limit_order calls from an empty book,
\* whenever best_bid_price is not u64::MIN and best_ask_price is not u64::MAX,
\* best_bid_price < best_ask_price.
C1_NoCrossedBBO ==
    (best_bid_price # U64_MIN /\ best_ask_price # U64_MAX)
        => best_bid_price < best_ask_price

\* C2: in every reachable state no resting bid and resting ask, both with
\* remaining quantity > 0, have bid price >= ask price.
C2_NoCrossedResting ==
    \A pb \in DOMAIN bid_book.price_map, pa \in DOMAIN ask_book.price_map :
        (/\ \E o \in 1 .. Len(LevelAt(bid_book, bid_book.price_map[pb])) :
               LevelAt(bid_book, bid_book.price_map[pb])[o].qty > 0
         /\ \E o \in 1 .. Len(LevelAt(ask_book, ask_book.price_map[pa])) :
               LevelAt(ask_book, ask_book.price_map[pa])[o].qty > 0)
        => pb < pa

\* A submit matched, rested its remainder, and the opposing side still holds
\* orders: both sides are populated right after a crossing submit.
C2_Witness ==
    /\ last_call.op = "submit"
    /\ fill_result.status = "PartiallyFilled"
    /\ NonEmptyPrices(bid_book) # {}
    /\ NonEmptyPrices(ask_book) # {}

\* The FIFO condition on one half book across a step: of two orders in the
\* same queue, the later-arrived loses quantity only if the earlier one is
\* gone from the book afterwards; an order that lost part of its quantity is
\* the head of its queue afterwards; the surviving orders keep their order.
FifoStep(before, after) ==
    \A i \in DOMAIN before.price_levels :
        LET q  == before.price_levels[i]
            q2 == after.price_levels[i]
        IN  /\ \A a \in DOMAIN q, b \in DOMAIN q :
                   (a < b /\ QtyIn(after, q[b].order_id) < q[b].qty)
                       => QtyIn(after, q[a].order_id) = 0
            /\ \A a \in DOMAIN q :
                   (/\ QtyIn(after, q[a].order_id) > 0
                    /\ QtyIn(after, q[a].order_id) < q[a].qty)
                       => (q2 # <<>> /\ Head(q2).order_id = q[a].order_id)
            /\ \A a \in DOMAIN q, b \in DOMAIN q :
                   (/\ a < b
                    /\ q[a].order_id \in IdsIn(after)
                    /\ q[b].order_id \in IdsIn(after))
                       => \E a2 \in DOMAIN q2, b2 \in DOMAIN q2 :
                              /\ a2 < b2
                              /\ q2[a2].order_id = q[a].order_id
                              /\ q2[b2].order_id = q[b].order_id

\* C3: time priority. In every add_limit_order step, an order resting behind
\* another at the same price on the same side is reduced only if the one
\* before it has been completely filled; a partially filled order stays at
\* the front of its level; queue order is arrival order (ids are issued in
\* arrival order).
C3_TimePriority ==
    /\ [][last_call'.op = "submit"
            => (FifoStep(ask_book, ask_book') /\ FifoStep(bid_book, bid_book'))]_vars
    /\ [](\A s \in Sides : \A i \in DOMAIN BookOf(Self, s).price_levels :
            \A a, b \in DOMAIN BookOf(Self, s).price_levels[i] :
                a < b => BookOf(Self, s).price_levels[i][a].order_id
                            < BookOf(Self, s).price_levels[i][b].order_id)

\* A level holds two orders after a submit that filled only part of the
\* first of them: the first-arrived order was decremented, the second not.
C3_Witness ==
    /\ last_call.op = "submit"
    /\ fill_result.status = "Filled"
    /\ fill_result.filled_orders # <<>>
    /\ \E s \in Sides : \E i \in DOMAIN BookOf(Self, s).price_levels :
          /\ Len(BookOf(Self, s).price_levels[i]) = 2
          /\ s # last_call.side
          /\ \E p \in DOMAIN BookOf(Self, s).price_map :
                /\ BookOf(Self, s).price_map[p] = i - 1
                /\ fill_result.filled_orders[1][2] = p

\* The price-priority condition of a submit of side s at `price` on the
\* opposing half book across the step.
PriceStep(s, price, before, after) ==
    \A x \in DOMAIN before.price_map :
        QtyAt(after, x) # QtyAt(before, x)
            => /\ Crosses(s, price, x)
               /\ QtyAt(after, x) < QtyAt(before, x)
               /\ \A y \in DOMAIN before.price_map :
                      (IF s = "Bid" THEN y < x ELSE y > x) => QtyAt(after, y) = 0

\* C4: price priority. A Bid consumes only ask levels with price <= the
\* incoming price and an Ask only bid levels with price >= it; an opposing
\* level loses quantity only if every opposing level at a strictly better
\* price is empty after the submit; fills are reported best price first.
C4_PricePriority ==
    [][last_call'.op = "submit"
          => /\ last_call'.side = "Bid"
                  => PriceStep("Bid", last_call'.price, ask_book, ask_book')
             /\ last_call'.side = "Ask"
                  => PriceStep("Ask", last_call'.price, bid_book, bid_book')
             /\ \A i, j \in DOMAIN fill_result'.filled_orders :
                    i < j => IF last_call'.side = "Bid"
                             THEN fill_result'.filled_orders[i][2]
                                     < fill_result'.filled_orders[j][2]
                             ELSE fill_result'.filled_orders[i][2]
                                     > fill_result'.filled_orders[j][2]]_vars

\* A Bid consumed two ask levels, the lower-priced one first: the level at
\* the worse price lost quantity after the better one had been emptied.
C4_Witness ==
    /\ last_call.op = "submit"
    /\ last_call.side = "Bid"
    /\ Len(fill_result.filled_orders) = 2
    /\ QtyAt(ask_book, fill_result.filled_orders[1][2]) = 0

\* C5: for every add_limit_order(side, price, qty) call, the quantities of
\* the returned filled_orders plus the returned remaining_qty add up to qty.
C5_QuantityConservation ==
    last_call.op = "submit"
        => SumFilled(fill_result.filled_orders) + fill_result.remaining_qty
              = last_call.qty

\* A submit was filled in part (a partial fill of a resting order included)
\* and returned a remainder.
C5_Witness ==
    /\ last_call.op = "submit"
    /\ SumFilled(fill_result.filled_orders) > 0
    /\ fill_result.remaining_qty > 0
    /\ fill_result.remaining_qty < U64_MAX

\* C6: after every add_limit_order call best_bid_price is the highest price
\* whose bid level is non-empty, or u64::MIN if there is none, and
\* best_ask_price the lowest price whose ask level is non-empty, or u64::MAX.
C6_BBOAfterSubmit ==
    last_call.op = "submit"
        => /\ best_bid_price = IF NonEmptyPrices(bid_book) = {} THEN U64_MIN
                               ELSE Highest(NonEmptyPrices(bid_book))
           /\ best_ask_price = IF NonEmptyPrices(ask_book) = {} THEN U64_MAX
                               ELSE Lowest(NonEmptyPrices(ask_book))

\* C7: an id is a key of order_loc iff exactly one order with that id rests
\* in some queue, and the (side, level) stored for it is where it rests.
C7_OrderIndexConsistent ==
    /\ \A id \in CancelIds :
          /\ id \in DOMAIN order_loc <=> Occurrences(Self, id) = 1
          /\ Occurrences(Self, id) <= 1
    /\ \A id \in DOMAIN order_loc :
          LET book == BookOf(Self, order_loc[id].side)
          IN  /\ order_loc[id].level + 1 \in DOMAIN book.price_levels
              /\ \E j \in DOMAIN book.price_levels[order_loc[id].level + 1] :
                    book.price_levels[order_loc[id].level + 1][j].order_id = id

\* Orders have been filled and cancelled and others still rest, on a level
\* that is not the first of its side.
C7_Witness ==
    /\ filled_ids # {}
    /\ cancelled_ids # {}
    /\ \E id \in DOMAIN order_loc : order_loc[id].level > 0

\* C8: cancel_order(id) returns Err when id was never issued, when its order
\* was fully filled by matching, or when it was already cancelled; it returns
\* Ok when the id rests, and the order then rests no more (so a second cancel
\* of the id fails).
C8_CancelOutcomes ==
    [][last_call'.op = "cancel"
          => LET id == last_call'.id
             IN  /\ (\/ id >= next_uuid
                     \/ id \in filled_ids
                     \/ id \in cancelled_ids) => cancel_result' = "Err"
                 /\ id \in RestingIds(Self)
                       => /\ cancel_result' = "Ok"
                          /\ id \in cancelled_ids'
                          /\ id \notin IdsIn(ask_book') \cup IdsIn(bid_book')
                 /\ cancel_result' \in {"Ok", "Err"}
                 /\ cancel_result' = "Ok" => id \in RestingIds(Self)]_vars

\* A second cancel of a cancelled id has failed, after some other order had
\* been filled by matching.
C8_Witness ==
    /\ last_call.op = "cancel"
    /\ cancel_result = "Err"
    /\ last_call.id \in cancelled_ids
    /\ filled_ids # {}

\* C9: add_limit_order with quantity 0 is rejected in every state: it returns
\* no fill result and leaves both ladders, the order index and the BBO fields
\* unchanged.
C9_ZeroQuantityRejected ==
    [][(last_call'.op = "submit" /\ last_call'.qty = 0)
          => /\ fill_result'.status = "InvalidQuantity"
             /\ UNCHANGED <<best_ask_price, best_bid_price, ask_book, bid_book,
                            order_loc>>]_vars

\* No opposing level that holds an order crosses a submit of side s at `price`.
CrossesNothing(s, price) ==
    \A x \in NonEmptyPrices(BookOf(Self, IF s = "Bid" THEN "Ask" ELSE "Bid")) :
        ~Crosses(s, price, x)

\* C10: for every add_limit_order call with qty > 0 the status is Filled iff
\* remaining_qty = 0, Created iff remaining_qty = qty and filled_orders is
\* empty, PartiallyFilled otherwise, never Uninitialized; a submit that
\* crosses no non-empty opposing level returns Created and its full quantity
\* rests at its price on its side.
C10_StatusClassification ==
    [][(last_call'.op = "submit" /\ last_call'.qty > 0)
          => LET fr   == fill_result'
                 qty  == last_call'.qty
                 s    == last_call'.side
                 own  == IF s = "Ask" THEN ask_book' ELSE bid_book'
                 none == fr.remaining_qty = qty /\ fr.filled_orders = <<>>
             IN  /\ fr.status = "Filled" <=> fr.remaining_qty = 0
                 /\ fr.status = "Created" <=> none
                 /\ fr.status = "PartiallyFilled"
                       <=> (fr.remaining_qty # 0 /\ ~none)
                 /\ fr.status # "Uninitialized"
                 /\ CrossesNothing(s, last_call'.price)
                       => /\ fr.status = "Created"
                          /\ fr.remaining_qty = qty
                          /\ QtyIn(own, next_uuid) = qty
                          /\ QtyAt(own, last_call'.price)
                                = qty + QtyAt(BookOf(Self, s), last_call'.price)]_vars

\* A submit at a crossing price found the crossing opposing level emptied by
\* a cancel and returned Created.
C10_Witness ==
    /\ last_call.op = "submit"
    /\ fill_result.status = "Created"
    /\ cancelled_ids # {}
    /\ \E x \in DOMAIN BookOf(Self, IF last_call.side = "Bid" THEN "Ask" ELSE "Bid").price_map :
          Crosses(last_call.side, last_call.price, x)


\* The side opposing s.
Opposite(s) == IF s = "Bid" THEN "Ask" ELSE "Bid"

\* The queue at price p of a half book, empty when the price has no level.
QueueAt(book, p) ==
    IF p \in DOMAIN book.price_map THEN LevelAt(book, book.price_map[p]) ELSE <<>>

\* The book the variables hold after the step.
SelfNext ==
    [best_ask_price |-> best_ask_price',
     best_bid_price |-> best_bid_price',
     bid_book       |-> bid_book',
     ask_book       |-> ask_book',
     order_loc      |-> order_loc',
     next_uuid      |-> next_uuid']

\* C11: when add_limit_order(side, price, qty) ends its walk with remaining
\* quantity r > 0, exactly one new order with quantity r is appended at the
\* back of the queue of the level at the incoming price on the incoming side
\* (the level is created if absent) and registered in order_loc; when r = 0
\* no order is added to either ladder or to order_loc.
C11_ResidualResting ==
    [][last_call'.op = "submit"
          => LET s    == last_call'.side
                 p    == last_call'.price
                 r    == fill_result'.remaining_qty
                 own  == BookOf(Self, s)
                 own2 == BookOf(SelfNext, s)
                 new  == [order_id |-> next_uuid, qty |-> r]
             IN  /\ r > 0
                    => /\ p \in DOMAIN own2.price_map
                       /\ QueueAt(own2, p) = Append(QueueAt(own, p), new)
                       /\ \A x \in DOMAIN own.price_map :
                             x # p => QueueAt(own2, x) = QueueAt(own, x)
                       /\ DOMAIN own2.price_map = DOMAIN own.price_map \cup {p}
                       /\ RestingIds(SelfNext) \ RestingIds(Self) = {next_uuid}
                       /\ Occurrences(SelfNext, next_uuid) = 1
                       /\ (DOMAIN order_loc') \ (DOMAIN order_loc) = {next_uuid}
                       /\ order_loc'[next_uuid] =
                             [side |-> s, level |-> own2.price_map[p]]
                 /\ r = 0
                    => /\ RestingIds(SelfNext) \subseteq RestingIds(Self)
                       /\ (DOMAIN order_loc') \subseteq (DOMAIN order_loc)
                       /\ own2 = own
                       /\ next_uuid' = next_uuid]_vars

\* A partially filled submit rested its remainder, smaller than the submitted
\* quantity, as the only order at its price.
C11_Witness ==
    /\ last_call.op = "submit"
    /\ fill_result.status = "PartiallyFilled"
    /\ fill_result.remaining_qty < last_call.qty
    /\ QueueAt(BookOf(Self, last_call.side), last_call.price) =
          <<[order_id |-> next_uuid - 1, qty |-> fill_result.remaining_qty]>>


\* C12: from an empty book, Ask(100, 10) returns Created, remaining 10, no
\* fills, with best_ask_price = 100 and best_bid_price = u64::MIN; then
\* Bid(100, 4) returns Filled, one fill of 4 at 100, remaining 0, and leaves
\* the resting ask with quantity 6; then Bid(101, 10) returns PartiallyFilled,
\* one fill of 6 at 100, remaining 4, a new resting bid of 4 at 101, no asks,
\* best bid 101.
C12_ScenarioABC ==
    /\ script_pos = 1
          => /\ fill_result = [filled_orders |-> <<>>, remaining_qty |-> 10,
                               status |-> "Created"]
             /\ best_ask_price = 100
             /\ best_bid_price = U64_MIN
             /\ QueueAt(ask_book, 100) = <<[order_id |-> 1, qty |-> 10]>>
    /\ script_pos = 2
          => /\ fill_result = [filled_orders |-> <<<<4, 100>>>>, remaining_qty |-> 0,
                               status |-> "Filled"]
             /\ QueueAt(ask_book, 100) = <<[order_id |-> 1, qty |-> 6]>>
             /\ OrdersIn(bid_book) = {}
    /\ script_pos = 3
          => /\ fill_result = [filled_orders |-> <<<<6, 100>>>>, remaining_qty |-> 4,
                               status |-> "PartiallyFilled"]
             /\ QueueAt(bid_book, 101) = <<[order_id |-> 2, qty |-> 4]>>
             /\ OrdersIn(bid_book) = {[order_id |-> 2, qty |-> 4]}
             /\ OrdersIn(ask_book) = {}
             /\ best_bid_price = 101

\* The three calls of the scenario have been made.
C12_Witness == script_pos = 3 /\ last_call.op = "submit"


\* The prices get_total_qty is asked about: every price offered, one below,
\* one above, and the two sentinels.
ProbePrices == (0 .. (MaxPrice + 1)) \cup {U64_MIN, U64_MAX}

RECURSIVE SumOver(_, _)
\* The sum of the remaining quantities in `book` of the orders with ids in S.
SumOver(book, S) ==
    IF S = {} THEN 0
    ELSE LET id == CHOOSE x \in S : TRUE
         IN  QtyIn(book, id) + SumOver(book, S \ {id})

\* C13: get_total_qty(price) returns the sum of the remaining quantities of
\* the orders resting at that price, 0 for a level that exists but is empty,
\* and fails, changing nothing, when no level exists at that price; get_bbo
\* fails rather than reporting a quantity while a side's best price is still
\* the sentinel and no level exists at the sentinel price.
C13_QuantityQuery ==
    /\ [](\A s \in Sides, p \in ProbePrices :
            LET book == BookOf(Self, s)
                r    == get_total_qty(book, p)
            IN  IF p \in DOMAIN book.price_map
                THEN LET q == LevelAt(book, book.price_map[p])
                     IN  /\ ~r.panic
                         /\ r.value = SumOver(book, {q[j].order_id : j \in DOMAIN q})
                         /\ q = <<>> => r.value = 0
                ELSE r.panic)
    /\ [][last_call'.op = "get_bbo"
            => /\ UNCHANGED <<best_ask_price, best_bid_price, ask_book, bid_book,
                              order_loc, next_uuid>>
               /\ bbo_result'.outcome \in {"Panic", "Printed"}
               /\ (\/ /\ best_bid_price = U64_MIN
                      /\ U64_MIN \notin DOMAIN bid_book.price_map
                   \/ /\ best_ask_price = U64_MAX
                      /\ U64_MAX \notin DOMAIN ask_book.price_map)
                     => bbo_result'.outcome = "Panic"
               /\ bbo_result'.outcome = "Printed"
                     => /\ bbo_result'.bid_qty = QtyAt(bid_book, best_bid_price)
                        /\ bbo_result'.ask_qty = QtyAt(ask_book, best_ask_price)]_vars

\* get_bbo failed on a book that holds asks and no bid level: best_bid_price
\* is still the sentinel.
C13_Witness ==
    /\ last_call.op = "get_bbo"
    /\ bbo_result.outcome = "Panic"
    /\ best_bid_price = U64_MIN
    /\ DOMAIN bid_book.price_map = {}
    /\ NonEmptyPrices(ask_book) # {}


\* The sequence q without its element at position j.
RemoveAt(q, j) == SubSeq(q, 1, j - 1) \o SubSeq(q, j + 1, Len(q))

\* C14: a successful cancel_order(id) removes exactly the one order with that
\* id from its level queue and its entry from order_loc and changes nothing
\* else: every other order keeps its quantity and its place, both price maps
\* and both best prices are unchanged.  A failed cancel_order changes nothing.
C14_CancelFrame ==
    [][last_call'.op = "cancel"
          => LET id == last_call'.id
             IN  /\ cancel_result' = "Ok"
                    => /\ Occurrences(Self, id) = 1
                       /\ Occurrences(SelfNext, id) = 0
                       /\ \A s \in Sides :
                             LET b  == BookOf(Self, s)
                                 b2 == BookOf(SelfNext, s)
                             IN  /\ b2.price_map = b.price_map
                                 /\ Len(b2.price_levels) = Len(b.price_levels)
                                 /\ \A i \in DOMAIN b.price_levels :
                                       LET q == b.price_levels[i]
                                       IN  IF \E j \in DOMAIN q : q[j].order_id = id
                                           THEN \E j \in DOMAIN q :
                                                   /\ q[j].order_id = id
                                                   /\ b2.price_levels[i] = RemoveAt(q, j)
                                           ELSE b2.price_levels[i] = q
                       /\ DOMAIN order_loc' = (DOMAIN order_loc) \ {id}
                       /\ \A k \in DOMAIN order_loc' : order_loc'[k] = order_loc[k]
                       /\ UNCHANGED <<best_ask_price, best_bid_price, next_uuid>>
                 /\ cancel_result' = "Err"
                    => UNCHANGED <<best_ask_price, best_bid_price, ask_book,
                                   bid_book, order_loc, next_uuid>>]_vars

\* A cancel emptied the level best_ask_price names while another ask level
\* still holds an order: the best price is stale.
C14_Witness ==
    /\ last_call.op = "cancel"
    /\ cancel_result = "Ok"
    /\ QueueAt(ask_book, best_ask_price) = <<>>
    /\ NonEmptyPrices(ask_book) # {}

\* C15: for every add_limit_order call, filled_orders holds at most one entry
\* per opposing level and none of quantity 0; an entry's quantity is the total
\* quantity this submit removed from the level of its price; its price crosses
\* the incoming price; the prices are strictly ascending for a Bid and
\* strictly descending for an Ask.
C15_FillShape ==
    [][last_call'.op = "submit"
          => LET s    == last_call'.side
                 p    == last_call'.price
                 f    == fill_result'.filled_orders
                 opp  == BookOf(Self, Opposite(s))
                 opp2 == BookOf(SelfNext, Opposite(s))
             IN  /\ \A i \in DOMAIN f :
                       /\ f[i][1] > 0
                       /\ f[i][2] \in DOMAIN opp.price_map
                       /\ f[i][1] = QtyAt(opp, f[i][2]) - QtyAt(opp2, f[i][2])
                       /\ IF s = "Bid" THEN f[i][2] <= p ELSE f[i][2] >= p
                 /\ \A i, j \in DOMAIN f :
                       i < j => /\ f[i][2] # f[j][2]
                                /\ IF s = "Bid" THEN f[i][2] < f[j][2]
                                   ELSE f[i][2] > f[j][2]
                 /\ \A x \in DOMAIN opp.price_map :
                       QtyAt(opp2, x) # QtyAt(opp, x)
                           => \E i \in DOMAIN f : f[i][2] = x]_vars

\* An Ask consumed two bid levels and reported one fill for each, the higher
\* price first.
C15_Witness ==
    /\ last_call.op = "submit"
    /\ last_call.side = "Ask"
    /\ Len(fill_result.filled_orders) = 2
    /\ fill_result.filled_orders[1][2] > fill_result.filled_orders[2][2]


\* C16: in every reachable state every order held in a price-level queue has
\* remaining quantity > 0: an order that reaches quantity 0 in a match pass
\* is out of its queue when add_limit_order returns.
C16_PositiveResting ==
    \A s \in Sides : \A i \in DOMAIN BookOf(Self, s).price_levels :
        \A j \in DOMAIN BookOf(Self, s).price_levels[i] :
            BookOf(Self, s).price_levels[i][j].qty > 0

\* A submit emptied the first order of a level and was filled by part of the
\* second, which now heads the level with what is left of it.
C16_Witness ==
    /\ last_call.op = "submit"
    /\ fill_result.status = "Filled"
    /\ Len(fill_result.filled_orders) = 1
    /\ fill_result.filled_orders[1][1] = MaxQty
    /\ cancelled_ids = {}
    /\ filled_ids = {1}
    /\ LET q == QueueAt(BookOf(Self, Opposite(last_call.side)),
                        fill_result.filled_orders[1][2])
       IN  q # <<>> /\ Head(q).order_id = 2 /\ Head(q).qty < MaxQty

\* C17: price levels are never removed or re-indexed.  Each price_map is an
\* injective mapping of its prices onto the indices 0 .. len(price_levels) - 1,
\* an entry once added never changes or disappears, and every (side, index)
\* in order_loc is a valid index into that side's price_levels.
C17_StableLevels ==
    /\ [](/\ \A s \in Sides :
                LET b == BookOf(Self, s)
                IN  /\ \A p1, p2 \in DOMAIN b.price_map :
                          b.price_map[p1] = b.price_map[p2] => p1 = p2
                    /\ {b.price_map[p] : p \in DOMAIN b.price_map}
                          = 0 .. (Len(b.price_levels) - 1)
          /\ \A id \in DOMAIN order_loc :
                /\ order_loc[id].side \in Sides
                /\ order_loc[id].level \in
                      0 .. (Len(BookOf(Self, order_loc[id].side).price_levels) - 1))
    /\ [][\A s \in Sides :
             LET b  == BookOf(Self, s)
                 b2 == BookOf(SelfNext, s)
             IN  /\ Len(b2.price_levels) >= Len(b.price_levels)
                 /\ \A p \in DOMAIN b.price_map :
                       /\ p \in DOMAIN b2.price_map
                       /\ b2.price_map[p] = b.price_map[p]]_vars

\* A side keeps the level a cancel emptied, and a level created after it holds
\* an order that order_loc places at its index.
C17_Witness ==
    /\ cancelled_ids # {}
    /\ \E s \in Sides :
          LET b == BookOf(Self, s)
          IN  /\ Len(b.price_levels) = 2
              /\ b.price_levels[1] = <<>>
              /\ b.price_levels[2] # <<>>
              /\ order_loc[Head(b.price_levels[2]).order_id] =
                    [side |-> s, level |-> 1]

\* C18: add_limit_order(side, price, qty) leaves unchanged every opposing
\* level whose price does not cross the incoming price, every opposing
\* crossing level that is worse in priority than the level at which the
\* incoming remaining quantity reached 0, and every order that was on the
\* incoming side; the only change on that side is the append of the residual.
C18_SubmitFrame ==
    [][last_call'.op = "submit"
          => LET s    == last_call'.side
                 p    == last_call'.price
                 f    == fill_result'.filled_orders
                 r    == fill_result'.remaining_qty
                 opp  == BookOf(Self, Opposite(s))
                 opp2 == BookOf(SelfNext, Opposite(s))
                 own  == BookOf(Self, s)
                 own2 == BookOf(SelfNext, s)
                 crossing(x) == IF s = "Bid" THEN x <= p ELSE x >= p
                 worse(x, y) == IF s = "Bid" THEN x > y ELSE x < y
             IN  /\ opp2.price_map = opp.price_map
                 /\ Len(opp2.price_levels) = Len(opp.price_levels)
                 /\ \A x \in DOMAIN opp.price_map :
                       ~crossing(x) => QueueAt(opp2, x) = QueueAt(opp, x)
                 /\ r = 0
                       => \A x \in DOMAIN opp.price_map :
                             (f = <<>> \/ worse(x, f[Len(f)][2]))
                                 => QueueAt(opp2, x) = QueueAt(opp, x)
                 /\ \A x \in DOMAIN own.price_map :
                       /\ x \in DOMAIN own2.price_map
                       /\ own2.price_map[x] = own.price_map[x]
                       /\ \/ QueueAt(own2, x) = QueueAt(own, x)
                          \/ /\ x = p
                             /\ r > 0
                             /\ QueueAt(own2, x) =
                                   Append(QueueAt(own, x),
                                          [order_id |-> next_uuid, qty |-> r])
                 /\ IdsIn(own2) \ IdsIn(own) \subseteq {next_uuid}]_vars

\* A Bid was filled at the best ask level and left alone a worse ask level
\* that it also crossed.
C18_Witness ==
    /\ last_call.op = "submit"
    /\ last_call.side = "Bid"
    /\ fill_result.status = "Filled"
    /\ Len(fill_result.filled_orders) = 1
    /\ \E x \in NonEmptyPrices(ask_book) :
          /\ x > fill_result.filled_orders[1][2]
          /\ x <= last_call.price


RECURSIVE TotalIn(_)
\* The total quantity resting in a sequence of levels.
TotalIn(levels) ==
    IF levels = <<>> THEN 0 ELSE SumQty(Head(levels)) + TotalIn(Tail(levels))

\* C19: after any sequence of add_limit_order and cancel_order calls from an
\* empty book, the total remaining quantity resting in both ladders equals the
\* sum of the submitted quantities minus twice the sum of the filled
\* quantities the fill results reported minus the sum of the quantities the
\* cancelled orders had left; no operation increases the remaining quantity
\* of a resting order.
C19_GlobalConservation ==
    /\ [](TotalIn(ask_book.price_levels) + TotalIn(bid_book.price_levels) = net_qty)
    /\ [][\A id \in RestingIds(Self) :
             QtyIn(ask_book', id) + QtyIn(bid_book', id)
                 <= QtyIn(ask_book, id) + QtyIn(bid_book, id)]_vars

\* Orders have been partly filled, fully filled and cancelled, and quantity
\* still rests.
C19_Witness ==
    /\ filled_ids # {}
    /\ cancelled_ids # {}
    /\ net_qty > 0
    /\ \E o \in OrdersIn(ask_book) \cup OrdersIn(bid_book) : o.qty < MaxQty

====
